---- MODULE Spec2Model ----
(***************************************************************************)
(* Bot fleet state engine of TradeForge-AI: the React state `bots` of App, *)
(* the interval callback that simulates PnL, the lifecycle handlers        *)
(* (deploy, toggle, delete, update) and the read-side projections of       *)
(* BotDashboard.                                                           *)
(*                                                                         *)
(* Representation.                                                         *)
(*   - JavaScript strings that the code inspects character by character    *)
(*     (ids, names, uptime labels, form texts) are sequences of            *)
(*     one-character strings; strings only compared for equality are TLA+  *)
(*     strings.                                                            *)
(*   - pnl and targetPnl are integers counting 0.01 currency units;        *)
(*     pnlPercent, pnlDropThreshold and maxDowntimeMinutes are integers    *)
(*     counting 0.01 of their unit.  Unrounded intermediate values of a    *)
(*     tick are integers counting 0.001 currency units.                    *)
(*   - Math.random() is a draw from 0..999, read as thousandths.           *)
(*   - Number.prototype.toFixed(2) is rounding to the nearest 0.01, halves *)
(*     away from zero.                                                     *)
(*   - Date.now() is the variable `now`.                                   *)
(***************************************************************************)
EXTENDS Integers, Sequences, FiniteSets, TLC

VARIABLES
  bots,      \* useState<TradingBot[]>: the state the last render committed
  pending,   \* updates queued by setBots and not rendered yet
  now,       \* Date.now()
  last,      \* the operation that produced this state, with its arguments
  steps,     \* number of operations so far
  statusFilter,  \* BotDashboard useState: 'ALL' | 'RUNNING' | 'PAUSED' | 'STOPPED'
  searchQuery,   \* BotDashboard useState: the search text
  sortBy,        \* BotDashboard useState: 'NAME' | 'PNL' | 'UPTIME'
  interval,      \* TRUE while App is mounted and its setInterval timer is set
  analysis,      \* App useState<AnalysisResponse | null>: <<>> for null, else <<response>>
  isAnalyzing,   \* App useState(false), set by refreshAnalysis
  requests,      \* analyzeMarketData calls awaited and not settled yet
  loading,       \* StrategyBuilder useState(false), set by handleGenerate
  result         \* StrategyBuilder useState<BacktestResult | null>: <<>> for null

vars == <<bots, pending, now, last, steps, statusFilter, searchQuery, sortBy, interval,
          analysis, isAnalyzing, requests, loading, result>>

query == <<statusFilter, searchQuery, sortBy>>

insight == <<analysis, isAnalyzing, requests, loading, result>>

\* ---------------------------------------------------------------- bounds
MaxSteps == 4
ClockStart == 100
MaxLoadSkew == 1

\* ------------------------------------------------------- program constants
VolatilityMax == 8
ImpliedCapital == 10000
DefaultPnlDropThreshold == 5
DefaultMaxDowntimeMinutes == 60
DefaultTargetPnl == 5000

\* ------------------------------------------------------------ conversions
DigitChars == <<"0", "1", "2", "3", "4", "5", "6", "7", "8", "9">>

IsDigit(c) == \E d \in 1..10 : DigitChars[d] = c

DigitVal(c) == (CHOOSE d \in 1..10 : DigitChars[d] = c) - 1

RECURSIVE NumberToString(_)
\* Number.prototype.toString() of a non-negative integer
NumberToString(n) ==
  IF n < 10 THEN <<DigitChars[n + 1]>>
  ELSE Append(NumberToString(n \div 10), DigitChars[(n % 10) + 1])

\* Number.prototype.toString() of a number given in 0.01: sign, integer
\* part, and the fraction without trailing zeros
DecimalToString(v) ==
  LET mag  == IF v < 0 THEN -v ELSE v
      frac == mag % 100
      sign == IF v < 0 THEN <<"-">> ELSE <<>>
      tail == IF frac = 0 THEN <<>>
              ELSE IF frac % 10 = 0 THEN <<".", DigitChars[(frac \div 10) + 1]>>
              ELSE <<".", DigitChars[(frac \div 10) + 1], DigitChars[(frac % 10) + 1]>>
  IN  sign \o NumberToString(mag \div 100) \o tail

\* n / d rounded to the nearest integer, halves away from zero
RoundDiv(n, d) ==
  IF n >= 0 THEN (2 * n + d) \div (2 * d)
  ELSE -((2 * (-n) + d) \div (2 * d))

IsSpace(c) == c \in {" ", "\t", "\n"}

RECURSIVE TrimStart(_)
TrimStart(s) ==
  IF s # <<>> /\ IsSpace(Head(s)) THEN TrimStart(Tail(s)) ELSE s

RECURSIVE TrimEnd(_)
TrimEnd(s) ==
  IF s # <<>> /\ IsSpace(s[Len(s)]) THEN TrimEnd(SubSeq(s, 1, Len(s) - 1)) ELSE s

\* Variant: the text is used as typed
Trim_AsTyped(s) == s

\* String.prototype.trim()
Trim(s) == TrimEnd(TrimStart(s))

RECURSIVE DigitPrefixLen(_)
DigitPrefixLen(s) ==
  IF s # <<>> /\ IsDigit(Head(s)) THEN 1 + DigitPrefixLen(Tail(s)) ELSE 0

RECURSIVE DigitsValue(_)
DigitsValue(s) ==
  IF s = <<>> THEN 0
  ELSE 10 * DigitsValue(SubSeq(s, 1, Len(s) - 1)) + DigitVal(s[Len(s)])

\* parseFloat(text): leading white space, an optional sign, digits, an
\* optional fraction; NaN when no digit is found.  The value counts 0.01
\* (fraction digits beyond the second are dropped; exponents and Infinity
\* are not covered).
ParseFloat(text) ==
  LET s0    == TrimStart(text)
      neg   == s0 # <<>> /\ Head(s0) = "-"
      s1    == IF s0 # <<>> /\ Head(s0) \in {"-", "+"} THEN Tail(s0) ELSE s0
      ni    == DigitPrefixLen(s1)
      ip    == SubSeq(s1, 1, ni)
      s2    == SubSeq(s1, ni + 1, Len(s1))
      dot   == s2 # <<>> /\ Head(s2) = "."
      s3    == IF dot THEN Tail(s2) ELSE <<>>
      nf    == DigitPrefixLen(s3)
      f1    == IF nf >= 1 THEN DigitVal(s3[1]) ELSE 0
      f2    == IF nf >= 2 THEN DigitVal(s3[2]) ELSE 0
      mag   == 100 * DigitsValue(ip) + 10 * f1 + f2
  IN  IF ni = 0 /\ nf = 0 THEN [nan |-> TRUE, val |-> 0]
      ELSE [nan |-> FALSE, val |-> IF neg THEN -mag ELSE mag]

\* `x || 0` for a number x: NaN and 0 are falsy
OrZero(p) == IF p.nan \/ p.val = 0 THEN 0 ELSE p.val

\* ------------------------------------------------------------ initial fleet
\* generateMockHistory(count): entries with ids h-0 .. h-(count-1); an entry
\* is represented by its index (type, title and profit are random and never
\* read by the fleet engine).
generateMockHistory(count) == [i \in 1..count |-> i - 1]

\* The alert timestamps are `new Date().toISOString()` taken while the module
\* loads, in source order: t1 <= t2 <= t3.
MOCK_BOTS(t1, t2, t3) ==
  <<
    [id |-> <<"1">>, name |-> <<"M", "A", "C", "D", " ", "T", "r", "e", "n", "d", " ", "F", "o", "l", "l", "o", "w", "e", "r", " ", "-", " ", "B", "T", "C">>,
     status |-> "RUNNING", pnl |-> 125050, pnlPercent |-> 1250, uptime |-> <<"4", "d", " ", "1", "2", "h">>,
     trades |-> 24, lastTrade |-> "2h ago",
     alertSettings |-> [pnlDropThreshold |-> 500, maxDowntimeMinutes |-> 6000, notifyOnTradeFailure |-> TRUE],
     activeAlerts |-> <<>>,
     targetPnl |-> 500000, strategyCode |-> "MACDStrategy", history |-> generateMockHistory(15)],
    [id |-> <<"2">>, name |-> <<"R", "S", "I", " ", "M", "e", "a", "n", " ", "R", "e", "v", "e", "r", "s", "i", "o", "n", " ", "-", " ", "E", "T", "H">>,
     status |-> "PAUSED", pnl |-> -4520, pnlPercent |-> -80, uptime |-> <<"1", "d", " ", "4", "h">>,
     trades |-> 5, lastTrade |-> "1d ago",
     alertSettings |-> [pnlDropThreshold |-> 1000, maxDowntimeMinutes |-> 3000, notifyOnTradeFailure |-> TRUE],
     activeAlerts |-> <<[id |-> "a1", type |-> "DOWNTIME", message |-> "Bot unresponsive for 45 mins", severity |-> "WARNING", timestamp |-> t1]>>,
     targetPnl |-> 200000, strategyCode |-> "RSIStrategy", history |-> generateMockHistory(5)],
    [id |-> <<"3">>, name |-> <<"B", "o", "l", "l", "i", "n", "g", "e", "r", " ", "B", "r", "e", "a", "k", "o", "u", "t", " ", "-", " ", "S", "O", "L">>,
     status |-> "RUNNING", pnl |-> 342080, pnlPercent |-> 2840, uptime |-> <<"7", "d", " ", "2", "h">>,
     trades |-> 45, lastTrade |-> "15m ago",
     alertSettings |-> [pnlDropThreshold |-> 800, maxDowntimeMinutes |-> 4500, notifyOnTradeFailure |-> FALSE],
     activeAlerts |-> <<>>,
     targetPnl |-> 1000000, strategyCode |-> "SAMPLE_CODE", history |-> generateMockHistory(20)],
    [id |-> <<"4">>, name |-> <<"V", "W", "A", "P", " ", "S", "c", "a", "l", "p", "e", "r", " ", "-", " ", "B", "T", "C">>,
     status |-> "STOPPED", pnl |-> -12050, pnlPercent |-> -210, uptime |-> <<"1", "2", "h", " ", "3", "0", "m">>,
     trades |-> 8, lastTrade |-> "5h ago",
     alertSettings |-> [pnlDropThreshold |-> 300, maxDowntimeMinutes |-> 1500, notifyOnTradeFailure |-> TRUE],
     activeAlerts |-> <<[id |-> "a2", type |-> "FAILURE", message |-> "API Rate Limit Exceeded", severity |-> "CRITICAL", timestamp |-> t2]>>,
     targetPnl |-> 100000, strategyCode |-> "SAMPLE_CODE", history |-> generateMockHistory(8)],
    [id |-> <<"5">>, name |-> <<"G", "r", "i", "d", " ", "T", "r", "a", "d", "e", "r", " ", "-", " ", "D", "O", "G", "E">>,
     status |-> "RUNNING", pnl |-> 15025, pnlPercent |-> 150, uptime |-> <<"3", "d", " ", "8", "h">>,
     trades |-> 112, lastTrade |-> "1m ago",
     alertSettings |-> [pnlDropThreshold |-> 1500, maxDowntimeMinutes |-> 12000, notifyOnTradeFailure |-> TRUE],
     activeAlerts |-> <<>>,
     targetPnl |-> 300000, strategyCode |-> "SAMPLE_CODE", history |-> generateMockHistory(30)],
    [id |-> <<"6">>, name |-> <<"I", "c", "h", "i", "m", "o", "k", "u", " ", "C", "l", "o", "u", "d", " ", "-", " ", "L", "I", "N", "K">>,
     status |-> "PAUSED", pnl |-> 1200, pnlPercent |-> 20, uptime |-> <<"5", "h", " ", "1", "0", "m">>,
     trades |-> 2, lastTrade |-> "3h ago",
     alertSettings |-> [pnlDropThreshold |-> 500, maxDowntimeMinutes |-> 6000, notifyOnTradeFailure |-> TRUE],
     activeAlerts |-> <<>>,
     targetPnl |-> 150000, strategyCode |-> "SAMPLE_CODE", history |-> generateMockHistory(4)],
    [id |-> <<"7">>, name |-> <<"D", "e", "e", "p", "Q", " ", "L", "e", "a", "r", "n", "i", "n", "g", " ", "A", "g", "e", "n", "t", " ", "-", " ", "B", "T", "C">>,
     status |-> "RUNNING", pnl |-> 560075, pnlPercent |-> 2800, uptime |-> <<"1", "5", "d", " ", "4", "h">>,
     trades |-> 892, lastTrade |-> "30s ago",
     alertSettings |-> [pnlDropThreshold |-> 1500, maxDowntimeMinutes |-> 3000, notifyOnTradeFailure |-> TRUE],
     activeAlerts |-> <<>>,
     targetPnl |-> 1000000, strategyCode |-> "QNetwork", history |-> generateMockHistory(40)],
    [id |-> <<"8">>, name |-> <<"S", "e", "n", "t", "i", "m", "e", "n", "t", " ", "T", "r", "a", "n", "s", "f", "o", "r", "m", "e", "r", " ", "-", " ", "E", "T", "H">>,
     status |-> "PAUSED", pnl |-> 89000, pnlPercent |-> 890, uptime |-> <<"3", "d", " ", "1", "2", "h">>,
     trades |-> 45, lastTrade |-> "4h ago",
     alertSettings |-> [pnlDropThreshold |-> 500, maxDowntimeMinutes |-> 12000, notifyOnTradeFailure |-> FALSE],
     activeAlerts |-> <<>>,
     targetPnl |-> 500000, strategyCode |-> "SAMPLE_CODE", history |-> generateMockHistory(12)],
    [id |-> <<"9">>, name |-> <<"A", "r", "b", "i", "t", "r", "a", "g", "e", " ", "H", "u", "n", "t", "e", "r", " ", "-", " ", "M", "A", "T", "I", "C">>,
     status |-> "RUNNING", pnl |-> 12040, pnlPercent |-> 120, uptime |-> <<"6", "h", " ", "1", "5", "m">>,
     trades |-> 14, lastTrade |-> "2m ago",
     alertSettings |-> [pnlDropThreshold |-> 200, maxDowntimeMinutes |-> 1000, notifyOnTradeFailure |-> TRUE],
     activeAlerts |-> <<>>,
     targetPnl |-> 100000, strategyCode |-> "SAMPLE_CODE", history |-> generateMockHistory(10)],
    [id |-> <<"1", "0">>, name |-> <<"W", "h", "a", "l", "e", " ", "W", "a", "t", "c", "h", "e", "r", " ", "A", "I", " ", "-", " ", "X", "R", "P">>,
     status |-> "STOPPED", pnl |-> -5025, pnlPercent |-> -100, uptime |-> <<"1", "d", " ", "0", "h">>,
     trades |-> 3, lastTrade |-> "1d ago",
     alertSettings |-> [pnlDropThreshold |-> 500, maxDowntimeMinutes |-> 6000, notifyOnTradeFailure |-> TRUE],
     activeAlerts |-> <<[id |-> "a3", type |-> "PNL", message |-> "Drawdown limit reached", severity |-> "WARNING", timestamp |-> t3]>>,
     targetPnl |-> 250000, strategyCode |-> "SAMPLE_CODE", history |-> generateMockHistory(5)]
  >>


\* ------------------------------------------------------------ tick updater
DirectionCut == 450
TradeCut == 950
AgeCut == 900

\* One bot's four Math.random() results of a tick, in call order; r4 is the
\* draw of the `else if`, evaluated only when there is no new trade.
DrawTable ==
  << [r1 |-> 62,  r2 |-> 500, r3 |-> 0,   r4 |-> 0],
     [r1 |-> 999, r2 |-> 100, r3 |-> 960, r4 |-> 0],
     [r1 |-> 938, r2 |-> 900, r3 |-> 100, r4 |-> 950],
     [r1 |-> 313, r2 |-> 200, r3 |-> 500, r4 |-> 500] >>

Seeds == {0, 1, 2}

\* The draws of the bot at position i in the tick of seed s
Draw(s, i) == DrawTable[((s + i) % Len(DrawTable)) + 1]

\* Variant: the move is twice the volatility
Change_Doubled(d) ==
  LET volatility == d.r1 * VolatilityMax
      direction  == IF d.r2 > DirectionCut THEN 1 ELSE -1
  IN  2 * volatility * direction

\* volatility * direction, in 0.001 currency units
Change(d) ==
  LET volatility == d.r1 * VolatilityMax
      direction  == IF d.r2 > DirectionCut THEN 1 ELSE -1
  IN  volatility * direction

\* bot.pnl + change before rounding, in 0.001 currency units
NewPnl(bot, d) == bot.pnl * 10 + Change(d)

HasNewTrade(d) == d.r3 > TradeCut

\* Variant: ageing rewrites every label
LastTradeTime_AgesAnyLabel(bot, d) ==
  IF HasNewTrade(d) THEN "Just now"
  ELSE IF d.r4 > AgeCut
       THEN IF bot.lastTrade = "1m ago" THEN "2m ago" ELSE "1m ago"
       ELSE bot.lastTrade

LastTradeTime(bot, d) ==
  IF HasNewTrade(d) THEN "Just now"
  ELSE IF d.r4 > AgeCut
       THEN IF bot.lastTrade = "Just now" THEN "1m ago"
            ELSE IF bot.lastTrade = "1m ago" THEN "2m ago"
            ELSE bot.lastTrade
       ELSE bot.lastTrade

\* Variant: the trade counter restarts at every new trade
TickBot_TradesRestart(bot, d) ==
  [bot EXCEPT
     !.pnl        = RoundDiv(NewPnl(bot, d), 10),
     !.pnlPercent = RoundDiv(NewPnl(bot, d) * 10, ImpliedCapital),
     !.trades     = IF HasNewTrade(d) THEN 1 ELSE bot.trades,
     !.lastTrade  = LastTradeTime(bot, d)]

\* Variant: the tick keeps only the first ten history entries
TickBot_CapsHistory(bot, d) ==
  [bot EXCEPT
     !.pnl        = RoundDiv(NewPnl(bot, d), 10),
     !.pnlPercent = RoundDiv(NewPnl(bot, d) * 10, ImpliedCapital),
     !.trades     = IF HasNewTrade(d) THEN bot.trades + 1 ELSE bot.trades,
     !.lastTrade  = LastTradeTime(bot, d),
     !.history    = SubSeq(bot.history, 1, IF Len(bot.history) < 10 THEN Len(bot.history) ELSE 10)]

\* Variant: a losing tick raises an alert
TickBot_RaisesAlert(bot, d) ==
  [bot EXCEPT
     !.pnl        = RoundDiv(NewPnl(bot, d), 10),
     !.pnlPercent = RoundDiv(NewPnl(bot, d) * 10, ImpliedCapital),
     !.trades     = IF HasNewTrade(d) THEN bot.trades + 1 ELSE bot.trades,
     !.lastTrade  = LastTradeTime(bot, d),
     !.activeAlerts = IF Change(d) < 0
                      THEN Append(bot.activeAlerts,
                                  [id |-> "tick", type |-> "PNL", message |-> "PnL dropped",
                                   severity |-> "WARNING", timestamp |-> 0])
                      ELSE bot.activeAlerts]

\* The object returned for a RUNNING bot
TickBot(bot, d) ==
  [bot EXCEPT
     !.pnl        = RoundDiv(NewPnl(bot, d), 10),
     !.pnlPercent = RoundDiv(NewPnl(bot, d) * 10, ImpliedCapital),
     !.trades     = IF HasNewTrade(d) THEN bot.trades + 1 ELSE bot.trades,
     !.lastTrade  = LastTradeTime(bot, d)]

\* Variant: the status test is missing
TickUpdater_AnyStatus(currentBots, s) ==
  [i \in 1..Len(currentBots) |-> TickBot(currentBots[i], Draw(s, i))]

\* Variant: the map stops after the first bot
TickUpdater_HeadOnly(currentBots, s) ==
  [i \in 1..Len(currentBots) |->
     IF i = 1 /\ currentBots[i].status = "RUNNING"
     THEN TickBot(currentBots[i], Draw(s, i))
     ELSE currentBots[i]]

\* currentBots => currentBots.map(...)
TickUpdater(currentBots, s) ==
  [i \in 1..Len(currentBots) |->
     IF currentBots[i].status = "RUNNING"
     THEN TickBot(currentBots[i], Draw(s, i))
     ELSE currentBots[i]]

\* ------------------------------------------------------- lifecycle handlers
NewBot(strategyName, code, t) ==
  [id |-> NumberToString(t), name |-> strategyName,
   status |-> "RUNNING", pnl |-> 0, pnlPercent |-> 0, uptime |-> <<"0", "m">>,
   trades |-> 0, lastTrade |-> "Waiting for signal...",
   alertSettings |-> [pnlDropThreshold |-> DefaultPnlDropThreshold * 100,
                      maxDowntimeMinutes |-> DefaultMaxDowntimeMinutes * 100,
                      notifyOnTradeFailure |-> TRUE],
   activeAlerts |-> <<>>,
   targetPnl |-> DefaultTargetPnl * 100, strategyCode |-> code, history |-> <<>>]

\* Variant: the new bot goes to the back
DeployValue_Append(cur, strategyName, code, t) == cur \o <<NewBot(strategyName, code, t)>>

\* [newBot, ...bots]
DeployValue(cur, strategyName, code, t) == <<NewBot(strategyName, code, t)>> \o cur

\* Variant: a STOPPED bot is left alone by the toggle
ToggledStatus_StoppedStays(status) ==
  IF status = "RUNNING" THEN "PAUSED"
  ELSE IF status = "PAUSED" THEN "RUNNING" ELSE status

\* Variant: the toggle only ever pauses
ToggledStatus_OnlyPauses(status) == "PAUSED"

\* Variant: pausing a bot stops it
ToggledStatus_StopsRunning(status) == IF status = "RUNNING" THEN "STOPPED" ELSE "RUNNING"

ToggledStatus(status) == IF status = "RUNNING" THEN "PAUSED" ELSE "RUNNING"

\* bots.map(bot => bot.id === id ? {...bot, status: ...} : bot)
ToggleValue(cur, id) ==
  [i \in 1..Len(cur) |->
     IF cur[i].id = id THEN [cur[i] EXCEPT !.status = ToggledStatus(cur[i].status)]
     ELSE cur[i]]

\* Variant: the comparison is inverted
KeepBot_Inverted(b, id) == b.id = id

KeepBot(b, id) == b.id # id

\* bots.filter(b => b.id !== id)
DeleteValue(cur, id) ==
  LET Keep(b) == KeepBot(b, id) IN SelectSeq(cur, Keep)

\* Variant: an update acknowledges the bot's alerts
Merge_ClearsAlerts(bot, updates) ==
  [f \in DOMAIN bot |->
     IF f \in DOMAIN updates THEN updates[f]
     ELSE IF f = "activeAlerts" THEN <<>> ELSE bot[f]]

\* { ...bot, ...updates }
Merge(bot, updates) ==
  [f \in DOMAIN bot |-> IF f \in DOMAIN updates THEN updates[f] ELSE bot[f]]

\* bots.map(bot => bot.id === id ? { ...bot, ...updates } : bot)
UpdateValue(cur, id, updates) ==
  [i \in 1..Len(cur) |-> IF cur[i].id = id THEN Merge(cur[i], updates) ELSE cur[i]]

\* Variant: a non-numeric threshold falls back to the default threshold
AlertUpdates_DefaultOnNaN(form) ==
  [alertSettings |->
     [pnlDropThreshold     |-> IF ParseFloat(form.pnlDropThreshold).nan
                               THEN DefaultPnlDropThreshold * 100
                               ELSE ParseFloat(form.pnlDropThreshold).val,
      maxDowntimeMinutes   |-> OrZero(ParseFloat(form.maxDowntimeMinutes)),
      notifyOnTradeFailure |-> form.notifyOnTradeFailure],
   targetPnl |-> OrZero(ParseFloat(form.targetPnl))]

\* The updates object handleSaveAlerts passes to onUpdateBot
AlertUpdates(form) ==
  [alertSettings |->
     [pnlDropThreshold     |-> OrZero(ParseFloat(form.pnlDropThreshold)),
      maxDowntimeMinutes   |-> OrZero(ParseFloat(form.maxDowntimeMinutes)),
      notifyOnTradeFailure |-> form.notifyOnTradeFailure],
   targetPnl |-> OrZero(ParseFloat(form.targetPnl))]

\* The form the settings button opens for a bot (the id is kept beside it):
\* targetPnl: bot.targetPnl ? bot.targetPnl.toString() : '5000'
handleEditAlerts(bot) ==
  [pnlDropThreshold     |-> DecimalToString(bot.alertSettings.pnlDropThreshold),
   maxDowntimeMinutes   |-> DecimalToString(bot.alertSettings.maxDowntimeMinutes),
   notifyOnTradeFailure |-> bot.alertSettings.notifyOnTradeFailure,
   targetPnl            |-> IF bot.targetPnl # 0 THEN DecimalToString(bot.targetPnl)
                            ELSE NumberToString(DefaultTargetPnl)]

\* The forms a save can submit untouched: the one opened for the bot(s)
\* with that id
OpenedForms(cur, id) ==
  {handleEditAlerts(cur[i]) : i \in {k \in DOMAIN cur : cur[k].id = id}}

\* The updates object handleSaveName passes to onUpdateBot
NameUpdates(tempName) == [name |-> Trim(tempName)]

\* ------------------------------------------------------------ BotDashboard
\* b.activeAlerts.map(a => ({...a, botName: b.name}))
AnnotatedAlerts(b) ==
  [k \in 1..Len(b.activeAlerts) |->
     [id |-> b.activeAlerts[k].id, type |-> b.activeAlerts[k].type,
      message |-> b.activeAlerts[k].message, severity |-> b.activeAlerts[k].severity,
      timestamp |-> b.activeAlerts[k].timestamp, botName |-> b.name]]

RECURSIVE FlatMapAlerts(_)
FlatMapAlerts(cur) ==
  IF cur = <<>> THEN <<>> ELSE AnnotatedAlerts(Head(cur)) \o FlatMapAlerts(Tail(cur))

\* bots.find(b => b.id === historyBotId) || null: the position of the bot the
\* history modal shows, 0 for null
historyBot(cur, historyBotId) ==
  IF \E i \in DOMAIN cur : cur[i].id = historyBotId
  THEN CHOOSE i \in DOMAIN cur :
         /\ cur[i].id = historyBotId
         /\ \A j \in 1..(i - 1) : cur[j].id # historyBotId
  ELSE 0

\* The entries the history modal lists: it is rendered only for a non-null
\* historyBot
HistoryShown(cur, historyBotId) ==
  IF historyBot(cur, historyBotId) = 0 THEN <<>>
  ELSE cur[historyBot(cur, historyBotId)].history

IsCritical(a) == a.severity = "CRITICAL"
IsWarning(a) == a.severity = "WARNING"

\* Variant: the list is grouped by severity, CRITICAL first
allActiveAlerts_BySeverity(cur) ==
  SelectSeq(FlatMapAlerts(cur), IsCritical) \o SelectSeq(FlatMapAlerts(cur), IsWarning)

\* bots.flatMap(b => b.activeAlerts.map(...)); the banner renders it in order
allActiveAlerts(cur) == FlatMapAlerts(cur)

\* ------------------------------------------------------- fleet query engine
UpperChars == <<"A", "B", "C", "D", "E", "F", "G", "H", "I", "J", "K", "L", "M",
                "N", "O", "P", "Q", "R", "S", "T", "U", "V", "W", "X", "Y", "Z">>
LowerChars == <<"a", "b", "c", "d", "e", "f", "g", "h", "i", "j", "k", "l", "m",
                "n", "o", "p", "q", "r", "s", "t", "u", "v", "w", "x", "y", "z">>

LowerOfUpper ==
  [c \in {UpperChars[k] : k \in 1..26} |->
     LowerChars[CHOOSE k \in 1..26 : UpperChars[k] = c]]

LowerChar(c) == IF c \in DOMAIN LowerOfUpper THEN LowerOfUpper[c] ELSE c

\* Variant: the text is compared in the case it was typed
ToLowerCase_AsTyped(str) == str

\* String.prototype.toLowerCase()
ToLowerCase(str) == [k \in 1..Len(str) |-> LowerChar(str[k])]

\* String.prototype.includes(): needle occurs in hay as a contiguous run
Includes(hay, needle) ==
  \E k \in 0..(Len(hay) - Len(needle)) : SubSeq(hay, k + 1, k + Len(needle)) = needle

\* Collation order of the characters that occur in names: white space and
\* punctuation before digits before letters
CollationChars ==
  <<" ", "-", "0", "1", "2", "3", "4", "5", "6", "7", "8", "9">> \o LowerChars

RankOfChar ==
  [c \in {CollationChars[k] : k \in DOMAIN CollationChars} |->
     CHOOSE k \in DOMAIN CollationChars : CollationChars[k] = c]

CharRank(c) ==
  IF LowerChar(c) \in DOMAIN RankOfChar THEN RankOfChar[LowerChar(c)] ELSE 0

RECURSIVE CompareRanks(_, _)
CompareRanks(a, b) ==
  IF a = <<>> /\ b = <<>> THEN 0
  ELSE IF a = <<>> THEN -1
  ELSE IF b = <<>> THEN 1
  ELSE IF CharRank(Head(a)) < CharRank(Head(b)) THEN -1
  ELSE IF CharRank(Head(a)) > CharRank(Head(b)) THEN 1
  ELSE CompareRanks(Tail(a), Tail(b))

RECURSIVE CompareCase(_, _)
\* Texts equal up to case: at the first difference lower case sorts first
CompareCase(a, b) ==
  IF a = <<>> \/ b = <<>> THEN 0
  ELSE IF Head(a) = Head(b) THEN CompareCase(Tail(a), Tail(b))
  ELSE IF Head(a) = LowerChar(Head(a)) THEN -1 ELSE 1

\* a.localeCompare(b) in the default locale, for the characters above:
\* letters are ordered alphabetically whatever their case, and case decides
\* only between texts that are otherwise equal
LocaleCompare(a, b) ==
  IF CompareRanks(a, b) # 0 THEN CompareRanks(a, b) ELSE CompareCase(a, b)

\* The leftmost match of /(\d+)u/ in str: 0 when there is none, else the
\* position where the digits start
UnitMatchStart(str, u) ==
  LET starts == {k \in DOMAIN str :
                   /\ IsDigit(str[k])
                   /\ k + DigitPrefixLen(SubSeq(str, k, Len(str))) \in DOMAIN str
                   /\ str[k + DigitPrefixLen(SubSeq(str, k, Len(str)))] = u}
  IN  IF starts = {} THEN 0 ELSE CHOOSE k \in starts : \A j \in starts : k <= j

\* parseInt of the captured digits, 0 without a match
UnitValue(str, u) ==
  LET k == UnitMatchStart(str, u)
  IN  IF k = 0 THEN 0
      ELSE DigitsValue(SubSeq(str, k, k + DigitPrefixLen(SubSeq(str, k, Len(str))) - 1))

HoursPerDay == 24

\* Variant: a minutes-only label counts as zero hours
getHours_MinutesAsZero(str) ==
  100 * (UnitValue(str, "d") * HoursPerDay + UnitValue(str, "h"))

\* getHours(str), in 0.01 hours: 0.01 for a label with 'm' and neither 'h'
\* nor 'd', else d * 24 + h
getHours(str) ==
  IF Includes(str, <<"m">>) /\ ~Includes(str, <<"h">>) /\ ~Includes(str, <<"d">>)
  THEN 1
  ELSE 100 * (UnitValue(str, "d") * HoursPerDay + UnitValue(str, "h"))

\* Variant: ascending PnL
Compare_AscendingPnl(a, b, key) ==
  IF key = "NAME" THEN LocaleCompare(a.name, b.name)
  ELSE IF key = "PNL" THEN a.pnl - b.pnl
  ELSE IF key = "UPTIME" THEN getHours(b.uptime) - getHours(a.uptime)
  ELSE 0

\* The comparator given to result.sort: negative when a goes first.  The PnL
\* difference counts 0.01 currency units, the uptime difference 0.01 hours.
Compare(a, b, key) ==
  IF key = "NAME" THEN LocaleCompare(a.name, b.name)
  ELSE IF key = "PNL" THEN b.pnl - a.pnl
  ELSE IF key = "UPTIME" THEN getHours(b.uptime) - getHours(a.uptime)
  ELSE 0

RECURSIVE InsertStable(_, _, _)
\* x put behind every element that does not have to follow it
InsertStable(sorted, x, key) ==
  IF sorted = <<>> THEN <<x>>
  ELSE IF Compare(sorted[Len(sorted)], x, key) > 0
       THEN Append(InsertStable(SubSeq(sorted, 1, Len(sorted) - 1), x, key),
                   sorted[Len(sorted)])
       ELSE Append(sorted, x)

RECURSIVE SortBots(_, _)
\* Array.prototype.sort with the comparator: a stable sort
SortBots(arr, key) ==
  IF arr = <<>> THEN <<>>
  ELSE InsertStable(SortBots(SubSeq(arr, 1, Len(arr) - 1), key), arr[Len(arr)], key)

\* result.filter(b => b.status === statusFilter), unless the filter is 'ALL'
FilterByStatus(arr, filter) ==
  LET Keep(b) == b.status = filter
  IN  IF filter # "ALL" THEN SelectSeq(arr, Keep) ELSE arr

\* result.filter(b => name or id includes the lower-cased query), unless the
\* query is empty
FilterBySearch(arr, text) ==
  LET q == ToLowerCase(text)
      Keep(b) == Includes(ToLowerCase(b.name), q) \/ Includes(ToLowerCase(b.id), q)
  IN  IF text # <<>> THEN SelectSeq(arr, Keep) ELSE arr

\* The useMemo value processedBots
processedBots(cur, filter, text, key) ==
  SortBots(FilterBySearch(FilterByStatus(cur, filter), text), key)

\* Variant: the memo sorts the array it was given whenever no filter has
\* replaced it by a new one
MemoStore_SortsInPlace(cur, filter, text, key) ==
  IF filter = "ALL" /\ text = <<>> THEN SortBots(cur, key) ELSE cur

\* The array `bots` after the memo has run: the memo works on the copy
\* [...bots], so the array the state holds is as before
MemoStore(cur, filter, text, key) == cur

RECURSIVE ReducePnl(_, _)
\* cur.reduce((acc, bot) => acc + bot.pnl, acc)
ReducePnl(cur, acc) ==
  IF cur = <<>> THEN acc ELSE ReducePnl(Tail(cur), acc + Head(cur).pnl)

IsRunning(b) == b.status = "RUNNING"

\* Variant: the total is taken over the bots the list shows
totalPnL_Shown == ReducePnl(processedBots(bots, statusFilter, searchQuery, sortBy), 0)

\* bots.reduce((acc, bot) => acc + bot.pnl, 0)
totalPnL == ReducePnl(bots, 0)

\* bots.filter(b => b.status === 'RUNNING').length
activeCount == Len(SelectSeq(bots, IsRunning))

\* ------------------------------------------------------------- React state
\* An update queued by setBots is either an updater function (the tick, kept
\* as its seed) or a plain next value.  A render applies the queue in order
\* to the committed state.
RECURSIVE ProcessQueue(_, _)
ProcessQueue(base, queue) ==
  IF queue = <<>> THEN base
  ELSE LET u == Head(queue)
       IN  ProcessQueue(IF u.fn THEN TickUpdater(base, u.seed) ELSE u.value,
                        Tail(queue))

FnUpdate(s) == [fn |-> TRUE, seed |-> s, value |-> <<>>]
ValueUpdate(v) == [fn |-> FALSE, seed |-> 0, value |-> v]

\* A handler runs inside a click event: its setBots(value) is queued behind
\* whatever is pending and the event's flush renders the queue.
SetBots(value) ==
  /\ bots' = ProcessQueue(bots, Append(pending, ValueUpdate(value)))
  /\ pending' = <<>>

\* ------------------------------------------------------------------ inputs
UnknownId == <<"9", "9">>
KnownIds == {<<"1">>, <<"2">>, <<"4">>, UnknownId}
FrontId == IF bots = <<>> THEN {} ELSE {bots[1].id}
CmdIds == KnownIds \cup FrontId
RenameIds == {<<>>, <<"1">>, UnknownId} \cup FrontId
TempNames == {<<" ", " ">>, <<" ", "Z", "e", "d", " ">>}
StrategyNames == {<<"T", "e", "s", "t", " ", "B", "o", "t">>}
FormIds == {<<"4">>} \cup FrontId
FormFields ==
  { [pnlDropThreshold |-> <<"a", "b", "c">>, maxDowntimeMinutes |-> <<>>,
     notifyOnTradeFailure |-> FALSE, targetPnl |-> <<"2", "5", "0", "0">>],
    [pnlDropThreshold |-> <<"2", ".", "5">>, maxDowntimeMinutes |-> <<"1", "5">>,
     notifyOnTradeFailure |-> TRUE, targetPnl |-> <<"0">>] }

StatusFilters == {"ALL", "RUNNING", "PAUSED", "STOPPED"}
SearchQueries == {<<>>, <<"R", "s", "i">>, <<"1", "0">>, <<"b", "t", "c">>}
SortKeys == {"NAME", "PNL", "UPTIME"}

\* --------------------------------------------------------- AI collaborator
\* Most analyzeMarketData calls awaited at one time
MaxRequests == 2

\* How a call to the Gemini service ends: a response text that parses, a
\* rejected request, or a response text JSON.parse throws on
AiOutcomes == {"ok", "rejected", "malformed"}

\* A parsed response of the analysis prompt
MarketResponse ==
  [sentiment |-> "BULLISH", score |-> 72, summary |-> "Uptrend intact.",
   keyLevels |-> [support |-> <<64000>>, resistance |-> <<68000>>]]

\* The object the catch block of analyzeMarketData returns
FallbackAnalysis ==
  [sentiment |-> "NEUTRAL", score |-> 50,
   summary |-> "AI Service currently unavailable. Using standard technical analysis fallback.",
   keyLevels |-> [support |-> <<>>, resistance |-> <<>>]]

\* Variant: the catch block rethrows
analyzeMarketData_Rethrows(outcome) ==
  [threw |-> outcome # "ok", value |-> MarketResponse]

\* analyzeMarketData: the awaited call and JSON.parse are inside the try, the
\* catch returns the fallback; the promise never rejects
analyzeMarketData(outcome) ==
  [threw |-> FALSE, value |-> IF outcome = "ok" THEN MarketResponse ELSE FallbackAnalysis]

\* A parsed response of the strategy prompt (the fields onDeploy reads)
BacktestResponse ==
  [strategyName |-> <<"T", "e", "s", "t", " ", "B", "o", "t">>, pseudoCode |-> "pseudoCode"]

\* generateStrategyAndBacktest: the catch throws Error('Failed to generate
\* strategy')
generateStrategyAndBacktest(outcome) ==
  [threw |-> outcome # "ok", value |-> BacktestResponse]

\* App after its mount effects: the first refreshAnalysis() is awaiting its
\* call; StrategyBuilder idle
InsightInit ==
  /\ analysis = <<>>
  /\ isAnalyzing = TRUE
  /\ requests = 1
  /\ loading = FALSE
  /\ result = <<>>

Op(name, id, arg) == [op |-> name, id |-> id, arg |-> arg]

\* ----------------------------------------------------------------- actions
Init ==
  /\ \E t2 \in 0..MaxLoadSkew : \E t3 \in t2..MaxLoadSkew :
       bots = MOCK_BOTS(ClockStart, ClockStart + t2, ClockStart + t3)
  /\ pending = <<>>
  /\ now = ClockStart + MaxLoadSkew
  /\ last = Op("Init", <<>>, <<>>)
  /\ steps = 0
  /\ statusFilter = "ALL"
  /\ searchQuery = <<>>
  /\ sortBy = "PNL"
  /\ interval = TRUE
  /\ InsightInit

\* The wall clock moves on
Advance ==
  /\ steps < MaxSteps
  /\ now' = now + 1
  /\ last' = Op("Advance", <<>>, <<>>)
  /\ steps' = steps + 1
  /\ UNCHANGED <<bots, pending, query, interval, insight>>

\* Variant: the timer keeps running after the cleanup
TimerArmed_Always(iv) == TRUE

\* The interval set by setInterval fires until clearInterval
TimerArmed(iv) == iv

\* Updates still queued when App unmounts are dropped with the component
PendingAfterUnmount(queue) == <<>>

\* The interval callback: setBots(currentBots => ...).  The period (1500 ms)
\* is far longer than the delay of the render it schedules, so no second
\* callback runs while one update is pending.
IntervalFire ==
  /\ steps < MaxSteps
  /\ TimerArmed(interval)
  /\ pending = <<>>
  /\ \E s \in Seeds : pending' = <<FnUpdate(s)>>
  /\ last' = Op("IntervalFire", <<>>, <<>>)
  /\ steps' = steps + 1
  /\ UNCHANGED <<bots, now, query, interval, insight>>

\* The render scheduled by the interval callback
Render ==
  /\ steps < MaxSteps
  /\ pending # <<>>
  /\ bots' = ProcessQueue(bots, pending)
  /\ pending' = <<>>
  /\ last' = Op("Render", <<>>, <<>>)
  /\ steps' = steps + 1
  /\ UNCHANGED <<now, query, interval, insight>>

handleDeployBot ==
  /\ steps < MaxSteps
  /\ interval
  /\ \E strategyName \in StrategyNames :
       /\ SetBots(DeployValue(bots, strategyName, "pseudoCode", now))
       /\ last' = Op("Deploy", NumberToString(now), strategyName)
  /\ steps' = steps + 1
  /\ UNCHANGED <<now, query, interval, insight>>

handleToggleBot ==
  /\ steps < MaxSteps
  /\ interval
  /\ \E id \in CmdIds :
       /\ SetBots(ToggleValue(bots, id))
       /\ last' = Op("Toggle", id, <<>>)
  /\ steps' = steps + 1
  /\ UNCHANGED <<now, query, interval, insight>>

handleDeleteBot ==
  /\ steps < MaxSteps
  /\ interval
  /\ \E id \in CmdIds :
       /\ SetBots(DeleteValue(bots, id))
       /\ last' = Op("Delete", id, <<>>)
  /\ steps' = steps + 1
  /\ UNCHANGED <<now, query, interval, insight>>

\* if (editingNameId && tempName.trim()) onUpdateBot(...)
handleSaveName ==
  /\ steps < MaxSteps
  /\ interval
  /\ \E editingNameId \in RenameIds : \E tempName \in TempNames :
       /\ IF editingNameId # <<>> /\ Trim(tempName) # <<>>
          THEN SetBots(UpdateValue(bots, editingNameId, NameUpdates(tempName)))
          ELSE UNCHANGED <<bots, pending>>
       /\ last' = Op("SaveName", editingNameId, tempName)
  /\ steps' = steps + 1
  /\ UNCHANGED <<now, query, interval, insight>>

\* if (alertForm) onUpdateBot(alertForm.id, {alertSettings, targetPnl}); the
\* form is the one the settings button opened, edited or left as opened
handleSaveAlerts ==
  /\ steps < MaxSteps
  /\ interval
  /\ \E id \in FormIds : \E fields \in FormFields \cup OpenedForms(bots, id) :
       /\ SetBots(UpdateValue(bots, id, AlertUpdates(fields)))
       /\ last' = Op("SaveAlerts", id, fields)
  /\ steps' = steps + 1
  /\ UNCHANGED <<now, query, interval, insight>>

\* The cleanup of the interval effect, run when App unmounts:
\* clearInterval(interval)
Teardown ==
  /\ steps < MaxSteps
  /\ interval
  /\ interval' = FALSE
  /\ pending' = PendingAfterUnmount(pending)
  /\ last' = Op("Teardown", <<>>, <<>>)
  /\ steps' = steps + 1
  /\ UNCHANGED <<bots, now, query, insight>>

\* The status buttons: setStatusFilter(status); the render that follows
\* recomputes processedBots
setStatusFilter ==
  /\ steps < MaxSteps
  /\ interval
  /\ \E status \in StatusFilters :
       /\ statusFilter' = status
       /\ bots' = MemoStore(bots, status, searchQuery, sortBy)
       /\ last' = Op("setStatusFilter", <<>>, status)
  /\ steps' = steps + 1
  /\ UNCHANGED <<pending, now, searchQuery, sortBy, interval, insight>>

\* The search box: setSearchQuery(e.target.value)
setSearchQuery ==
  /\ steps < MaxSteps
  /\ interval
  /\ \E text \in SearchQueries :
       /\ searchQuery' = text
       /\ bots' = MemoStore(bots, statusFilter, text, sortBy)
       /\ last' = Op("setSearchQuery", <<>>, text)
  /\ steps' = steps + 1
  /\ UNCHANGED <<pending, now, statusFilter, sortBy, interval, insight>>

\* The sort selector: setSortBy(e.target.value)
setSortBy ==
  /\ steps < MaxSteps
  /\ interval
  /\ \E key \in SortKeys :
       /\ sortBy' = key
       /\ bots' = MemoStore(bots, statusFilter, searchQuery, key)
       /\ last' = Op("setSortBy", <<>>, key)
  /\ steps' = steps + 1
  /\ UNCHANGED <<pending, now, statusFilter, searchQuery, interval, insight>>

Next ==
  \/ Teardown
  \/ Advance
  \/ IntervalFire
  \/ Render
  \/ handleDeployBot
  \/ handleToggleBot
  \/ handleDeleteBot
  \/ handleSaveName
  \/ handleSaveAlerts

Spec == Init /\ [][Next]_vars

\* The dashboard in use: the query controls together with the operations
\* that change what the query reads
QueryNext ==
  \/ setStatusFilter
  \/ setSearchQuery
  \/ setSortBy
  \/ handleDeployBot
  \/ handleToggleBot
  \/ IntervalFire
  \/ Render

QuerySpec == Init /\ [][QueryNext]_vars


\* ------------------------------------------------- dashboard over any fleet
\* BotDashboard takes the fleet as a prop; the uptime order is examined over
\* fleets whose uptime labels are drawn from the label forms the parser's
\* comment names ("Xd Yh", "Xm", and their parts).  -1 marks an absent part.
UptimeFleetSize == 3

UptimeParts ==
  { [d |-> -1, h |-> -1, m |-> 45],
    [d |-> -1, h |-> -1, m |-> 0],
    [d |-> -1, h |-> 3,  m |-> -1],
    [d |-> -1, h |-> 0,  m |-> -1],
    [d |-> -1, h |-> 12, m |-> 30],
    [d |-> 1,  h |-> 2,  m |-> -1],
    [d |-> 0,  h |-> 0,  m |-> -1],
    [d |-> 10, h |-> -1, m |-> -1] }

\* The parts of a label joined by one space
JoinParts(a, b) == IF a = <<>> THEN b ELSE IF b = <<>> THEN a ELSE a \o <<" ">> \o b

\* The label text of given parts, such as '1d 2h' or '45m'
UptimeLabel(r) ==
  JoinParts(JoinParts(IF r.d < 0 THEN <<>> ELSE Append(NumberToString(r.d), "d"),
                      IF r.h < 0 THEN <<>> ELSE Append(NumberToString(r.h), "h")),
            IF r.m < 0 THEN <<>> ELSE Append(NumberToString(r.m), "m"))

\* A bot as the dashboard receives it, with the given uptime label
BotWithUptime(k, r) ==
  [NewBot(<<"B", "o", "t">>, "pseudoCode", ClockStart + k) EXCEPT !.uptime = UptimeLabel(r)]

UptimeInit ==
  /\ \E parts \in [1..UptimeFleetSize -> UptimeParts] :
       bots = [k \in 1..UptimeFleetSize |-> BotWithUptime(k, parts[k])]
  /\ pending = <<>>
  /\ now = ClockStart + MaxLoadSkew
  /\ last = Op("Init", <<>>, <<>>)
  /\ steps = 0
  /\ statusFilter = "ALL"
  /\ searchQuery = <<>>
  /\ sortBy = "PNL"
  /\ interval = TRUE
  /\ InsightInit

UptimeNext == setSortBy

UptimeSpec == UptimeInit /\ [][UptimeNext]_vars

\* refreshAnalysis up to its await (the refresh button is never disabled):
\* setIsAnalyzing(true); analyzeMarketData(MOCK_MARKET_DATA)
refreshAnalysis ==
  /\ steps < MaxSteps
  /\ interval
  /\ requests < MaxRequests
  /\ isAnalyzing' = TRUE
  /\ requests' = requests + 1
  /\ last' = Op("refreshAnalysis", <<>>, <<>>)
  /\ steps' = steps + 1
  /\ UNCHANGED <<bots, pending, now, query, interval, analysis, loading, result>>

\* refreshAnalysis after its await: setAnalysis(result), or the catch when
\* the call threw; finally setIsAnalyzing(false)
AnalysisSettles ==
  /\ steps < MaxSteps
  /\ interval
  /\ requests > 0
  /\ \E outcome \in AiOutcomes :
       /\ analysis' = IF analyzeMarketData(outcome).threw THEN analysis
                      ELSE <<analyzeMarketData(outcome).value>>
       /\ last' = Op("AnalysisSettles", <<>>, outcome)
  /\ isAnalyzing' = FALSE
  /\ requests' = requests - 1
  /\ steps' = steps + 1
  /\ UNCHANGED <<bots, pending, now, query, interval, loading, result>>

\* StrategyBuilder.handleGenerate (single mode, prompt given) up to its
\* await; the button is disabled while loading
handleGenerate ==
  /\ steps < MaxSteps
  /\ interval
  /\ ~loading
  /\ loading' = TRUE
  /\ last' = Op("handleGenerate", <<>>, <<>>)
  /\ steps' = steps + 1
  /\ UNCHANGED <<bots, pending, now, query, interval, analysis, isAnalyzing, requests, result>>

\* handleGenerate after its await: setResult(data), or the catch (an alert
\* box) when the call threw; finally setLoading(false)
GenerateSettles ==
  /\ steps < MaxSteps
  /\ interval
  /\ loading
  /\ \E outcome \in AiOutcomes :
       /\ result' = IF generateStrategyAndBacktest(outcome).threw THEN result
                    ELSE <<generateStrategyAndBacktest(outcome).value>>
       /\ last' = Op("GenerateSettles", <<>>, outcome)
  /\ loading' = FALSE
  /\ steps' = steps + 1
  /\ UNCHANGED <<bots, pending, now, query, interval, analysis, isAnalyzing, requests>>

\* The app in use while the AI collaborator is called: its calls together
\* with ticks and commands
InsightNext ==
  \/ refreshAnalysis
  \/ AnalysisSettles
  \/ handleGenerate
  \/ GenerateSettles
  \/ IntervalFire
  \/ Render
  \/ handleDeployBot
  \/ handleToggleBot

InsightSpec == Init /\ [][InsightNext]_vars

\* ================================================================== claims
Abs(x) == IF x < 0 THEN -x ELSE x

IsTick == last'.op = "Render"

\* The seed of the tick a Render step applies
TickSeed == pending[1].seed

\* ---- C1
\* C1 (as stated): ToggleStatus(id) maps RUNNING to PAUSED and PAUSED to
\* RUNNING and leaves the store unchanged when the bot with that id is
\* STOPPED or when no bot has that id.
C1_ToggleStoppedNoOp ==
  [][last'.op = "Toggle" =>
       /\ Len(bots') = Len(bots)
       /\ \A i \in DOMAIN bots :
            IF bots[i].id = last'.id /\ bots[i].status # "STOPPED"
            THEN bots'[i] = [bots[i] EXCEPT !.status =
                               IF bots[i].status = "RUNNING" THEN "PAUSED" ELSE "RUNNING"]
            ELSE bots'[i] = bots[i]]_vars

\* C1 (amended): ToggleStatus(id) maps RUNNING to PAUSED and every other
\* status, PAUSED and STOPPED alike, to RUNNING, changing no other field and
\* no other bot; the store is unchanged only when no bot has that id.
C1_Toggle ==
  [][last'.op = "Toggle" =>
       /\ Len(bots') = Len(bots)
       /\ \A i \in DOMAIN bots :
            IF bots[i].id = last'.id
            THEN /\ bots[i].status = "RUNNING" => bots'[i].status = "PAUSED"
                 /\ bots[i].status \in {"PAUSED", "STOPPED"} => bots'[i].status = "RUNNING"
                 /\ [bots'[i] EXCEPT !.status = bots[i].status] = bots[i]
            ELSE bots'[i] = bots[i]
       /\ (\A i \in DOMAIN bots : bots[i].id # last'.id) => bots' = bots]_vars

\* A toggle has started the STOPPED bot 4
C1_Witness ==
  /\ last.op = "Toggle"
  /\ last.id = <<"4">>
  /\ \E i \in DOMAIN bots : bots[i].id = <<"4">> /\ bots[i].status = "RUNNING"

\* ---- C2
\* C2: no two bots of the store share an identifier, whatever sequence of
\* Deploy, Delete, ToggleStatus, Rename, UpdateAlertSettings and ticks led
\* here, two Deploys at the same clock value included.
C2_UniqueIds ==
  \A i, j \in DOMAIN bots : i # j => bots[i].id # bots[j].id

\* ---- C3
\* pnlPercent recomputed from the stored pnl: round(pnl / 10000 * 100, 2)
PercentOfStored(bot) == RoundDiv(bot.pnl * 100, ImpliedCapital)

\* C3: in every reachable state, the initial fleet included,
\* every bot's pnlPercent equals round(pnl / 10000 * 100, 2) computed from
\* its stored pnl.
C3_PercentFromStoredPnl ==
  \A i \in DOMAIN bots : bots[i].pnlPercent = PercentOfStored(bots[i])

\* ---- C4
\* C4: for every bot whose status is not RUNNING, a tick leaves pnl,
\* pnlPercent, trades and lastTrade exactly unchanged.
C4_TickSkipsNonRunning ==
  [][IsTick =>
       /\ Len(bots') = Len(bots)
       /\ \A i \in DOMAIN bots :
            bots[i].status # "RUNNING" =>
              /\ bots'[i].pnl = bots[i].pnl
              /\ bots'[i].pnlPercent = bots[i].pnlPercent
              /\ bots'[i].trades = bots[i].trades
              /\ bots'[i].lastTrade = bots[i].lastTrade]_vars

\* A tick that traded has run over a fleet holding PAUSED and STOPPED bots
C4_Witness ==
  /\ last.op = "Render"
  /\ \E i, j, k \in DOMAIN bots :
       /\ bots[i].status = "PAUSED"
       /\ bots[j].status = "STOPPED"
       /\ bots[k].status = "RUNNING" /\ bots[k].lastTrade = "Just now"

\* ---- C5
C5_Step ==
  CASE last'.op = "Deploy" ->
         \A i \in DOMAIN bots : bots'[i + 1].trades >= bots[i].trades
    [] last'.op = "Delete" ->
         \A j \in DOMAIN bots' : \E i \in DOMAIN bots : bots[i] = bots'[j]
    [] OTHER ->
         /\ Len(bots') = Len(bots)
         /\ \A i \in DOMAIN bots : bots'[i].trades >= bots[i].trades

\* C5: every bot's trade count is a non-negative integer and no step (tick,
\* toggle, rename, alert-settings update, deploy of another bot, delete of
\* another bot) lowers the trade count of a bot that stays in the store.
C5_TradesNeverDecrease ==
  /\ [](\A i \in DOMAIN bots : bots[i].trades \in Nat)
  /\ [][C5_Step]_vars

\* A tick has executed a trade for bot 1 (24 trades at load)
C5_Witness ==
  /\ last.op = "Render"
  /\ \E i \in DOMAIN bots : bots[i].id = <<"1">> /\ bots[i].trades = 25

\* ---- C6
\* What a command computes when it is given the store `cur`
CommandValue(op, cur) ==
  CASE op.op = "Deploy"     -> DeployValue(cur, op.arg, "pseudoCode", now)
    [] op.op = "Toggle"     -> ToggleValue(cur, op.id)
    [] op.op = "Delete"     -> DeleteValue(cur, op.id)
    [] op.op = "SaveAlerts" -> UpdateValue(cur, op.id, AlertUpdates(op.arg))
    [] op.op = "SaveName"   ->
         IF op.id # <<>> /\ Trim(op.arg) # <<>>
         THEN UpdateValue(cur, op.id, NameUpdates(op.arg)) ELSE cur

CommandOps == {"Deploy", "Toggle", "Delete", "SaveAlerts", "SaveName"}

\* C6: store mutations are serialized: when a tick has been issued and a
\* lifecycle command follows, the resulting store is the command applied to
\* the ticked store; the command never discards the tick's PnL/trade update.
C6_CommandKeepsTick ==
  [][(pending # <<>> /\ last'.op \in CommandOps) =>
       bots' = CommandValue(last', TickUpdater(bots, TickSeed))]_vars

\* ---- C7
IsPnlAlert(a) == a.type = "PNL"

\* C7: a bot has an active PNL alert exactly when pnlPercent <=
\* -pnlDropThreshold, and then exactly one, CRITICAL when the drop exceeds
\* twice the threshold and WARNING otherwise.
C7_PnlAlertIffBreach ==
  \A i \in DOMAIN bots :
    LET b         == bots[i]
        threshold == b.alertSettings.pnlDropThreshold
        pnlAlerts == SelectSeq(b.activeAlerts, IsPnlAlert)
    IN  IF b.pnlPercent <= -threshold
        THEN /\ Len(pnlAlerts) = 1
             /\ pnlAlerts[1].severity =
                  IF -b.pnlPercent > 2 * threshold THEN "CRITICAL" ELSE "WARNING"
        ELSE pnlAlerts = <<>>

\* ---- C8
\* C8: a bot whose notifyOnTradeFailure flag is false has no active FAILURE
\* alert, also after UpdateAlertSettings has switched the flag off.
C8_FailureOnlyWhenNotify ==
  \A i \in DOMAIN bots :
    ~bots[i].alertSettings.notifyOnTradeFailure =>
      \A k \in DOMAIN bots[i].activeAlerts : bots[i].activeAlerts[k].type # "FAILURE"

\* ---- C9
SeverityRank(a) == IF a.severity = "CRITICAL" THEN 0 ELSE 1

\* C9 (as stated): the fleet-wide alert list is ordered by severity, every
\* CRITICAL alert before every WARNING alert, and within equal severity by
\* timestamp, most recent first.
C9_SortedBySeverity ==
  LET L == allActiveAlerts(bots)
  IN  \A p, q \in DOMAIN L :
        p < q =>
          /\ SeverityRank(L[p]) <= SeverityRank(L[q])
          /\ SeverityRank(L[p]) = SeverityRank(L[q]) => L[p].timestamp >= L[q].timestamp

\* The places <<bot position, alert position>> an entry of the list comes from
Origins(a) ==
  {<<i, k>> \in (DOMAIN bots) \X (1..3) :
     /\ k \in DOMAIN bots[i].activeAlerts
     /\ bots[i].activeAlerts[k].id = a.id
     /\ bots[i].name = a.botName}

RECURSIVE AlertCount(_)
AlertCount(cur) ==
  IF cur = <<>> THEN 0 ELSE Len(Head(cur).activeAlerts) + AlertCount(Tail(cur))

\* C9 (amended): the fleet-wide alert list is presented in fleet order, the
\* alerts of a bot nearer the front of the store before those of a bot
\* behind it and each bot's alerts in their stored order, with no ordering
\* by severity or timestamp.
C9_FleetOrder ==
  LET L == allActiveAlerts(bots)
  IN  /\ Len(L) = AlertCount(bots)
      /\ \A p \in DOMAIN L : Origins(L[p]) # {}
      /\ \A p, q \in DOMAIN L :
           p < q =>
             \E o1 \in Origins(L[p]) : \E o2 \in Origins(L[q]) :
               \/ o1[1] < o2[1]
               \/ o1[1] = o2[1] /\ o1[2] < o2[2]

\* After a deploy the list still shows bot 2's WARNING before bot 4's CRITICAL
C9_Witness ==
  LET L == allActiveAlerts(bots)
  IN  /\ last.op = "Deploy"
      /\ Len(L) = 3
      /\ L[1].severity = "WARNING" /\ L[1].id = "a1"
      /\ L[2].severity = "CRITICAL" /\ L[2].id = "a2"

\* ---- C10
\* C10: Deploy adds exactly one bot, at the front, with status RUNNING, pnl
\* 0, pnlPercent 0, trades 0, alert configuration (5, 60, true), no active
\* alerts and an empty history; every bot that existed stays unchanged and
\* in the same order behind it.
C10_Deploy ==
  [][last'.op = "Deploy" =>
       /\ Len(bots') = Len(bots) + 1
       /\ bots'[1].status = "RUNNING"
       /\ bots'[1].pnl = 0 /\ bots'[1].pnlPercent = 0 /\ bots'[1].trades = 0
       /\ bots'[1].alertSettings =
            [pnlDropThreshold |-> 500, maxDowntimeMinutes |-> 6000,
             notifyOnTradeFailure |-> TRUE]
       /\ bots'[1].activeAlerts = <<>>
       /\ bots'[1].history = <<>>
       /\ bots'[1].name = last'.arg
       /\ \A i \in DOMAIN bots : bots'[i + 1] = bots[i]]_vars

\* A deploy has put its bot in front of the ten bots of the initial fleet
C10_Witness ==
  /\ last.op = "Deploy"
  /\ Len(bots) = 11
  /\ bots[1].history = <<>> /\ bots[1].status = "RUNNING"
  /\ bots[2].id = <<"1">> /\ bots[11].id = <<"1", "0">>

\* ---- C11
\* Positions of the bots a delete of `id` keeps
Survivors(id) == {i \in DOMAIN bots : bots[i].id # id}

\* C11: Delete(id) removes the bot with that id, history and alerts with
\* it, in one step; every other bot stays unchanged and in the same relative
\* order; an unknown id changes nothing; afterwards the history lookup for
\* that id lists no entries.
C11_Delete ==
  [][last'.op = "Delete" =>
       /\ Len(bots') = Cardinality(Survivors(last'.id))
       /\ \A i \in Survivors(last'.id) :
            bots'[Cardinality({k \in Survivors(last'.id) : k <= i})] = bots[i]
       /\ (Survivors(last'.id) = DOMAIN bots) => bots' = bots
       /\ historyBot(bots', last'.id) = 0
       /\ HistoryShown(bots', last'.id) = <<>>]_vars

\* Bot 2 and its five history entries are gone, bots 1 and 3 are neighbours
C11_Witness ==
  /\ last.op = "Delete"
  /\ last.id = <<"2">>
  /\ \A i \in DOMAIN bots : bots[i].id # <<"2">>
  /\ \E i \in DOMAIN bots :
       /\ i + 1 \in DOMAIN bots
       /\ bots[i].id = <<"1">> /\ bots[i + 1].id = <<"3">>
       /\ Len(bots[i + 1].history) = 20

\* ---- C12
OtherStatus(status) == IF status = "RUNNING" THEN "PAUSED" ELSE "RUNNING"

\* C12: for a RUNNING or PAUSED bot, ToggleStatus changes only the status
\* field, and a second ToggleStatus right after it restores the original
\* status with every other field as before.
C12_ToggleTwice ==
  [][last'.op = "Toggle" =>
       \A i \in DOMAIN bots :
         (bots[i].id = last'.id /\ bots[i].status \in {"RUNNING", "PAUSED"}) =>
           /\ bots'[i] = [bots[i] EXCEPT !.status = OtherStatus(bots[i].status)]
           /\ ToggleValue(bots', last'.id)[i] = bots[i]]_vars

\* Deploy, toggle, toggle: the deployed bot is RUNNING again after a toggle,
\* with zero trades and zero pnl
C12_Witness ==
  /\ last.op = "Toggle"
  /\ steps = 3
  /\ bots[1].id = last.id
  /\ bots[1].history = <<>>
  /\ bots[1].status = "RUNNING" /\ bots[1].trades = 0 /\ bots[1].pnl = 0

\* ---- C13
IsBlank(text) == \A k \in DOMAIN text : text[k] \in {" ", "\t", "\n"}

\* C13: Rename(id, newName) with an empty or whitespace-only newName is
\* rejected: the name and every other field of the store stay as they were.
C13_BlankRenameRejected ==
  [][(last'.op = "SaveName" /\ IsBlank(last'.arg)) => bots' = bots]_vars

\* A rename of bot 1 to two blanks was submitted and bot 1 kept its name
C13_Witness ==
  /\ last.op = "SaveName"
  /\ last.id = <<"1">>
  /\ last.arg = <<" ", " ">>
  /\ \E i \in DOMAIN bots : bots[i].id = <<"1">> /\ bots[i].name[1] = "M"

\* ---- C14
HasNoDigit(text) == \A k \in DOMAIN text : ~IsDigit(text[k])
AllDigits(text) == text # <<>> /\ \A k \in DOMAIN text : IsDigit(text[k])

\* The number a submitted text stands for, in 0.01 units
Submitted(text) ==
  CASE HasNoDigit(text)           -> 0
    [] AllDigits(text)            -> 100 * DigitsValue(text)
    [] text = <<"2", ".", "5">>   -> 250

\* C14: UpdateAlertSettings never rejects: the target bot's alert
\* configuration and target are replaced by the submitted values, a numeric
\* field whose text is non-numeric or empty is stored as 0, and no other
\* field and no other bot changes.
C14_SaveAlerts ==
  [][last'.op = "SaveAlerts" =>
       /\ Len(bots') = Len(bots)
       /\ \A i \in DOMAIN bots :
            IF bots[i].id = last'.id
            THEN /\ bots'[i].alertSettings =
                      [pnlDropThreshold     |-> Submitted(last'.arg.pnlDropThreshold),
                       maxDowntimeMinutes   |-> Submitted(last'.arg.maxDowntimeMinutes),
                       notifyOnTradeFailure |-> last'.arg.notifyOnTradeFailure]
                 /\ bots'[i].targetPnl = Submitted(last'.arg.targetPnl)
                 /\ [bots'[i] EXCEPT !.alertSettings = bots[i].alertSettings,
                                     !.targetPnl = bots[i].targetPnl] = bots[i]
            ELSE bots'[i] = bots[i]]_vars

\* The threshold text "abc" was saved for bot 4 and is stored as 0
C14_Witness ==
  /\ last.op = "SaveAlerts"
  /\ last.id = <<"4">>
  /\ last.arg.pnlDropThreshold = <<"a", "b", "c">>
  /\ \E i \in DOMAIN bots :
       /\ bots[i].id = <<"4">>
       /\ bots[i].alertSettings.pnlDropThreshold = 0
       /\ bots[i].alertSettings.maxDowntimeMinutes = 0
       /\ bots[i].targetPnl = 250000

\* ---- C15
RECURSIVE IsSubseq(_, _)
\* a occurs in b, in order, possibly with other entries in between
IsSubseq(a, b) ==
  IF a = <<>> THEN TRUE
  ELSE IF b = <<>> THEN FALSE
  ELSE IF Head(a) = Head(b) THEN IsSubseq(Tail(a), Tail(b))
  ELSE IsSubseq(a, Tail(b))

Extends(old, new) == old = new \/ IsSubseq(old, new)

C15_Step ==
  CASE last'.op = "Deploy" ->
         \A i \in DOMAIN bots : Extends(bots[i].history, bots'[i + 1].history)
    [] last'.op = "Delete" ->
         \A j \in DOMAIN bots' :
           \E i \in DOMAIN bots :
             bots[i].id = bots'[j].id /\ Extends(bots[i].history, bots'[j].history)
    [] OTHER ->
         /\ Len(bots') = Len(bots)
         /\ \A i \in DOMAIN bots : Extends(bots[i].history, bots'[i].history)

\* C15: a bot's history is append-only: across every tick and lifecycle
\* command the history of a bot that stays in the store contains its earlier
\* entries unchanged and in the same relative order.
C15_HistoryAppendOnly == [][C15_Step]_vars

\* Bot 7 has been ticked and still holds its forty entries
C15_Witness ==
  /\ last.op = "Render"
  /\ \E i \in DOMAIN bots :
       /\ bots[i].id = <<"7">>
       /\ bots[i].pnl # 560075
       /\ bots[i].history = generateMockHistory(40)

\* ---- C16
\* The store with every bot labelled by its position
Tagged(cur) ==
  [i \in DOMAIN cur |->
     [f \in (DOMAIN cur[i]) \cup {"pos"} |-> IF f = "pos" THEN i ELSE cur[i][f]]]

\* needle occurs in hay when case is ignored
ContainsIgnoringCase(hay, needle) ==
  \E off \in 0..(Len(hay) - Len(needle)) :
    \A k \in 1..Len(needle) : LowerChar(hay[off + k]) = LowerChar(needle[k])

MatchesQuery(b) ==
  /\ statusFilter = "ALL" \/ b.status = statusFilter
  /\ \/ searchQuery = <<>>
     \/ ContainsIgnoringCase(b.name, searchQuery)
     \/ ContainsIgnoringCase(b.id, searchQuery)

\* C16: the query result holds exactly the bots that pass both the status
\* filter (ALL, or status equal to the selected one) and the search filter
\* (empty query, or the query occurs, case ignored, in the name or the id),
\* each of them once.
C16_ExactlyTheMatches ==
  LET tagged == Tagged(bots)
      shown  == processedBots(tagged, statusFilter, searchQuery, sortBy)
      want   == {i \in DOMAIN bots : MatchesQuery(bots[i])}
  IN  /\ Len(shown) = Cardinality(want)
      /\ {shown[p].pos : p \in DOMAIN shown} = want
      /\ \A p \in DOMAIN shown : shown[p] = tagged[shown[p].pos]

\* Filter RUNNING with the query "Rsi", which only the PAUSED bot 2 matches:
\* the result is empty
C16_Witness ==
  /\ statusFilter = "RUNNING"
  /\ searchQuery = <<"R", "s", "i">>
  /\ processedBots(bots, statusFilter, searchQuery, sortBy) = <<>>
  /\ \E i \in DOMAIN bots :
       bots[i].status = "PAUSED" /\ ContainsIgnoringCase(bots[i].name, searchQuery)

\* ---- C17
\* C17: for the current snapshot and filter, sort-by-PnL orders the bots by
\* pnl descending, bots of equal pnl keep their store order, and sorting the
\* result again gives the same ordering.
C17_SortByPnl ==
  LET shown == processedBots(Tagged(bots), statusFilter, searchQuery, "PNL")
  IN  /\ \A p, q \in DOMAIN shown :
           p < q =>
             /\ shown[p].pnl >= shown[q].pnl
             /\ shown[p].pnl = shown[q].pnl => shown[p].pos < shown[q].pos
      /\ processedBots(shown, statusFilter, searchQuery, "PNL") = shown

\* Two bots of equal pnl are in the store while the list is sorted by PnL
C17_Witness ==
  /\ sortBy = "PNL"
  /\ statusFilter = "ALL"
  /\ \E i, j \in DOMAIN bots : i < j /\ bots[i].pnl = bots[j].pnl
  /\ \E i, j \in DOMAIN bots : i < j /\ bots[i].pnl < bots[j].pnl

\* ---- C18
QueryOps == {"setStatusFilter", "setSearchQuery", "setSortBy"}

RECURSIVE PnlOfFirst(_)
PnlOfFirst(n) == IF n = 0 THEN 0 ELSE PnlOfFirst(n - 1) + bots[n].pnl

\* C19: whatever the status filter, the search query and the sort key, the
\* total PnL is the sum of pnl over all bots of the store, the active count
\* is the number of RUNNING bots of the store, and the flattened alert list
\* holds every active alert of every bot with its bot's name.
C19_AggregatesOverStore ==
  /\ totalPnL = PnlOfFirst(Len(bots))
  /\ activeCount = Cardinality({i \in DOMAIN bots : bots[i].status = "RUNNING"})
  /\ Len(allActiveAlerts(bots)) = AlertCount(bots)
  /\ \A i \in DOMAIN bots : \A k \in DOMAIN bots[i].activeAlerts :
       \E p \in DOMAIN allActiveAlerts(bots) :
         /\ allActiveAlerts(bots)[p].id = bots[i].activeAlerts[k].id
         /\ allActiveAlerts(bots)[p].message = bots[i].activeAlerts[k].message
         /\ allActiveAlerts(bots)[p].botName = bots[i].name

\* The list is filtered to the PAUSED bots while the aggregates count the
\* five RUNNING bots and the three alerts of the fleet
C19_Witness ==
  /\ statusFilter = "PAUSED"
  /\ Len(processedBots(bots, statusFilter, searchQuery, sortBy)) = 3
  /\ activeCount = 5
  /\ Len(allActiveAlerts(bots)) = 3
  /\ totalPnL > 0

\* ---- C20
\* C20: once the interval has been cleared at teardown, no later step
\* changes the pnl, pnlPercent, trades or lastTrade of any bot.
C20_NoTickAfterTeardown ==
  [][~interval =>
       /\ Len(bots') = Len(bots)
       /\ \A i \in DOMAIN bots :
            /\ bots'[i].pnl = bots[i].pnl
            /\ bots'[i].pnlPercent = bots[i].pnlPercent
            /\ bots'[i].trades = bots[i].trades
            /\ bots'[i].lastTrade = bots[i].lastTrade]_vars

\* The interval was cleared while a tick's update was queued, and time has
\* passed since
C20_Witness ==
  /\ ~interval
  /\ last.op = "Advance"
  /\ steps >= 3
  /\ pending = <<>>

\* ---- C21
\* C21: a tick is one store transition that applies to every RUNNING bot of
\* the snapshot: the state a tick commits holds the tick's result for each
\* of them, so no state shows some of them moved and others not.
C21_TickAppliesToAll ==
  [][IsTick =>
       /\ Len(bots') = Len(bots)
       /\ \A i \in DOMAIN bots :
            bots[i].status = "RUNNING" =>
              bots'[i] = TickBot(bots[i], Draw(TickSeed, i))]_vars

\* A tick has run over a fleet with a deployed bot in front: the deployed
\* bot and the last RUNNING bot of the initial fleet have both moved
C21_Witness ==
  /\ last.op = "Render"
  /\ Len(bots) = 11
  /\ bots[1].pnl # 0
  /\ bots[10].id = <<"9">> /\ bots[10].pnl # 12040

\* ---- C22
\* The rank of position i among the positions a delete of `id` keeps
RankAmongSurvivors(i, id) == Cardinality({k \in Survivors(id) : k <= i})

\* The position after a step of the bot at position i before it; 0 when
\* the step deleted the bot
NewPos(i) ==
  IF last'.op = "Deploy" THEN i + 1
  ELSE IF last'.op = "Delete"
       THEN IF bots[i].id = last'.id THEN 0 ELSE RankAmongSurvivors(i, last'.id)
       ELSE i

\* No step puts a bot into STOPPED: a bot that is STOPPED after the step was
\* in the store and STOPPED before it
NoneBecomesStopped ==
  \A j \in DOMAIN bots' :
    bots'[j].status = "STOPPED" =>
      \E i \in DOMAIN bots : NewPos(i) = j /\ bots[i].status = "STOPPED"

\* C22 (as stated): no operation moves a bot into STOPPED, and a STOPPED bot
\* stays STOPPED until it is deleted.
C22_StoppedIsTerminal ==
  [][/\ NoneBecomesStopped
     /\ \A i \in DOMAIN bots :
          bots[i].status = "STOPPED" =>
            \/ last'.op = "Delete" /\ bots[i].id = last'.id
            \/ /\ NewPos(i) \in DOMAIN bots'
               /\ bots'[NewPos(i)].status = "STOPPED"]_vars

\* C22 (amended): no operation moves a bot into STOPPED; a STOPPED bot stays
\* STOPPED under deploy, rename, alert-settings update and tick, leaves the
\* store by delete, and is started (RUNNING) by ToggleStatus on its id.
C22_StoppedLeftOnlyByToggle ==
  [][/\ NoneBecomesStopped
     /\ \A i \in DOMAIN bots :
          bots[i].status = "STOPPED" =>
            \/ last'.op = "Delete" /\ bots[i].id = last'.id
            \/ /\ NewPos(i) \in DOMAIN bots'
               /\ bots'[NewPos(i)].status =
                    IF last'.op = "Toggle" /\ bots[i].id = last'.id
                    THEN "RUNNING" ELSE "STOPPED"]_vars

\* Bot 4, STOPPED at load, has been toggled and a later tick has moved its
\* pnl; bot 10 is still STOPPED
C22_Witness ==
  /\ last.op = "Render"
  /\ \E i, j \in DOMAIN bots :
       /\ bots[i].id = <<"4">> /\ bots[i].status = "RUNNING" /\ bots[i].pnl # -12050
       /\ bots[j].id = <<"1", "0">> /\ bots[j].status = "STOPPED"

\* ---- C23
\* One step along the ageing sequence of the last-trade label
AgesOneStep(old, new) ==
  \/ old = "Just now" /\ new = "1m ago"
  \/ old = "1m ago" /\ new = "2m ago"

\* C23: in a tick a RUNNING bot's trade count rises by at most 1; when it
\* rises the last-trade label is 'Just now', and the label becomes 'Just
\* now' only with a rise; without a new trade the label stays or advances
\* one step along Just now -> 1m ago -> 2m ago, and no other label changes.
C23_TradeAndLabel ==
  [][IsTick =>
       \A i \in DOMAIN bots :
         bots[i].status = "RUNNING" =>
           /\ bots'[i].trades \in {bots[i].trades, bots[i].trades + 1}
           /\ bots'[i].trades = bots[i].trades + 1 => bots'[i].lastTrade = "Just now"
           /\ (bots'[i].lastTrade = "Just now" /\ bots[i].lastTrade # "Just now")
                => bots'[i].trades = bots[i].trades + 1
           /\ bots'[i].trades = bots[i].trades =>
                \/ bots'[i].lastTrade = bots[i].lastTrade
                \/ AgesOneStep(bots[i].lastTrade, bots'[i].lastTrade)]_vars

\* A tick has aged bot 5's label from '1m ago' to '2m ago' without a trade
\* while another bot traded
C23_Witness ==
  /\ last.op = "Render"
  /\ \E i, k \in DOMAIN bots :
       /\ bots[i].id = <<"5">> /\ bots[i].lastTrade = "2m ago" /\ bots[i].trades = 112
       /\ bots[k].lastTrade = "Just now"

\* ---- C24
\* C24: a tick changes a RUNNING bot's pnl by a signed move of absolute
\* value strictly below 8: the stored pnl is the old pnl plus the move,
\* rounded to 2 decimal places, hence at most 8.00 away from the old pnl.
C24_MoveBelowVolatility ==
  [][IsTick =>
       \A i \in DOMAIN bots :
         bots[i].status = "RUNNING" =>
           LET move == bots'[i].pnl - bots[i].pnl
               draw == Change(Draw(TickSeed, i))
           IN  /\ Abs(draw) < VolatilityMax * 1000
               /\ bots'[i].pnl = RoundDiv(bots[i].pnl * 10 + draw, 10)
               /\ Abs(move) <= VolatilityMax * 100]_vars

\* A tick has moved bot 1 by 7.99 (a draw of 0.999: 7.992 before rounding)
C24_Witness ==
  /\ last.op = "Render"
  /\ \E i \in DOMAIN bots :
       /\ bots[i].id = <<"1">> /\ bots[i].status = "RUNNING"
       /\ Abs(bots[i].pnl - 125050) = 799

\* ---- C25
\* C25: a tick leaves the number and order of bots unchanged and, for every
\* bot, leaves id, name, status, uptime, alertSettings, activeAlerts,
\* targetPnl, strategyCode and history unchanged: it writes no history, no
\* alert, nothing but pnl, pnlPercent, trades and lastTrade.
C25_TickFrame ==
  [][IsTick =>
       /\ Len(bots') = Len(bots)
       /\ \A i \in DOMAIN bots :
            /\ bots'[i].id = bots[i].id
            /\ bots'[i].name = bots[i].name
            /\ bots'[i].status = bots[i].status
            /\ bots'[i].uptime = bots[i].uptime
            /\ bots'[i].alertSettings = bots[i].alertSettings
            /\ bots'[i].activeAlerts = bots[i].activeAlerts
            /\ bots'[i].targetPnl = bots[i].targetPnl
            /\ bots'[i].strategyCode = bots[i].strategyCode
            /\ bots'[i].history = bots[i].history]_vars

\* Bot 2 (one alert, five history entries) was started and a tick has moved
\* its pnl and executed a trade for it
C25_Witness ==
  /\ last.op = "Render"
  /\ \E i \in DOMAIN bots :
       /\ bots[i].id = <<"2">> /\ bots[i].status = "RUNNING"
       /\ bots[i].pnl # -4520 /\ bots[i].trades = 6
       /\ Len(bots[i].activeAlerts) = 1 /\ Len(bots[i].history) = 5

\* ---- C28
\* The ids of the alerts a bot of the initial fleet is loaded with; a bot
\* that Deploy created has none
LoadedAlertIds(id) ==
  IF id = <<"2">> THEN <<"a1">>
  ELSE IF id = <<"4">> THEN <<"a2">>
  ELSE IF id = <<"1", "0">> THEN <<"a3">>
  ELSE <<>>

AlertIds(b) == [k \in 1..Len(b.activeAlerts) |-> b.activeAlerts[k].id]

C28_Step ==
  /\ \A i \in DOMAIN bots :
       NewPos(i) # 0 =>
         /\ NewPos(i) \in DOMAIN bots'
         /\ bots'[NewPos(i)].activeAlerts = bots[i].activeAlerts
  /\ IF last'.op = "Deploy"
     THEN Len(bots') = Len(bots) + 1 /\ bots'[1].activeAlerts = <<>>
     ELSE Len(bots') <= Len(bots)

\* C28: no operation adds, removes or changes an active alert: every bot in
\* the store holds the alerts it entered the store with (those of the
\* initial fleet, none for a deployed bot) before and after every step, and
\* every step carries each remaining bot's alerts over unchanged.
C28_AlertsNeverChange ==
  [][/\ \A i \in DOMAIN bots : AlertIds(bots[i]) = LoadedAlertIds(bots[i].id)
     /\ \A j \in DOMAIN bots' : AlertIds(bots'[j]) = LoadedAlertIds(bots'[j].id)
     /\ C28_Step]_vars

\* Bot 4 still holds alert a2 after it was started and its alert settings
\* were saved
C28_Witness ==
  /\ last.op = "SaveAlerts"
  /\ last.id = <<"4">>
  /\ \E i \in DOMAIN bots :
       /\ bots[i].id = <<"4">> /\ bots[i].status = "RUNNING"
       /\ AlertIds(bots[i]) = <<"a2">>

\* ---- C29
\* The save submits the form exactly as the settings button opened it for
\* the bot at position i
SavedAsOpened(i) ==
  /\ last'.op = "SaveAlerts"
  /\ bots[i].id = last'.id
  /\ last'.arg = handleEditAlerts(bots[i])

\* C29: opening a bot's settings editor and saving it without editing any
\* field leaves the bot's alertSettings and targetPnl as they were, also for
\* a bot whose targetPnl is 0.
C29_OpenSaveIsIdentity ==
  [][\A i \in DOMAIN bots :
       SavedAsOpened(i) =>
         /\ bots'[i].alertSettings = bots[i].alertSettings
         /\ bots'[i].targetPnl = bots[i].targetPnl]_vars

\* ---- C26
\* The parts a label of the store was written from
PartsOf(str) == CHOOSE r \in UptimeParts : UptimeLabel(r) = str

MinutesOnly(r) == r.d < 0 /\ r.h < 0 /\ r.m >= 0

\* Whole hours of a label with a day or an hour part: N * 24 + M
TotalHours(r) == (IF r.d < 0 THEN 0 ELSE r.d) * 24 + (IF r.h < 0 THEN 0 ELSE r.h)

\* C26: under sort-by-uptime no minutes-only label comes before a label of
\* at least one whole hour, no label of zero hours comes before a
\* minutes-only label, and labels with day or hour parts are in descending
\* order of N * 24 + M.
C26_UptimeOrder ==
  sortBy = "UPTIME" =>
    LET shown == processedBots(bots, statusFilter, searchQuery, sortBy)
        parts == [p \in DOMAIN shown |-> PartsOf(shown[p].uptime)]
    IN  /\ Len(shown) = Len(bots)
        /\ \A p, q \in DOMAIN shown :
             p < q =>
               /\ ~(MinutesOnly(parts[p]) /\ ~MinutesOnly(parts[q]) /\ TotalHours(parts[q]) >= 1)
               /\ ~(~MinutesOnly(parts[p]) /\ TotalHours(parts[p]) = 0 /\ MinutesOnly(parts[q]))
               /\ (~MinutesOnly(parts[p]) /\ ~MinutesOnly(parts[q]))
                    => TotalHours(parts[p]) >= TotalHours(parts[q])

\* The store lists a zero-hour label, then a minutes-only label, then a
\* label of 26 hours, and the dashboard sorts by uptime
C26_Witness ==
  /\ sortBy = "UPTIME"
  /\ last.op = "setSortBy"
  /\ Len(bots) >= 3
  /\ bots[1].uptime = <<"0", "h">>
  /\ bots[2].uptime = <<"4", "5", "m">>
  /\ bots[3].uptime = <<"1", "d", " ", "2", "h">>

C30_AnalyzingWhileRequested ==
  requests > 0 => isAnalyzing

====
